---- MODULE Spec2Model ----
(***************************************************************************)
(* DelugeRPCClient (deluge_client/client.py) as a state machine.           *)
(*                                                                         *)
(* The client is one sequential thread of control.  Its Python call stack  *)
(* (call -> reconnect -> connect -> call -> ...) is the variable `stack`;  *)
(* an exception in flight is `exc`.  The daemon and the network are the    *)
(* environment: every socket operation (connect, send, recv) draws its     *)
(* outcome from the outcomes the operation can have.  The bytes that have   *)
(* arrived and the client has not yet read are `inbuf`; a recv fails only  *)
(* when none has arrived.                                                  *)
(***************************************************************************)
EXTENDS Integers, Sequences, FiniteSets, TLC

VARIABLES
    automatic_reconnect,      \* self.automatic_reconnect
    request_id,               \* self.request_id
    connected,                \* self.connected
    deluge_protocol_version,  \* self.deluge_protocol_version (0 is None)
    socket,                   \* self._socket: id of the socket object (0 is None)
    nsock,                    \* number of socket objects created so far
    openSocks,                \* socket objects created and not closed
    sockConnected,            \* the socket object self._socket is connected
    inbuf,                    \* bytes that arrived on the socket, not yet read
    late,                     \* bytes the daemon wrote that have not arrived yet
    chunking,                 \* how the network splits the stream across recvs
    stack,                    \* the Python call stack of the client's methods
    exc,                      \* the exception being raised, if any
    data,                     \* _receive_response: local `data`
    expected_bytes,           \* _receive_response: local `expected_bytes`
    xchg,                     \* history: the exchange in progress
    done,                     \* history: the call() invocation that just ended
    sess,                     \* history: the transport sessions and the requests
    nops                      \* history: operations the host program has invoked

vars == <<automatic_reconnect, request_id, connected, deluge_protocol_version,
          socket, nsock, openSocks, sockConnected, inbuf, late, chunking, stack, exc,
          data,
          expected_bytes, xchg, done, sess, nops>>

(***************************************************************************)
(* Bounds of the model.                                                    *)
(***************************************************************************)
\* number of operations the host program invokes on the client when every
\* recv returns all the bytes that have arrived (up to the size asked for)
MaxOps == 3
\* the same when a recv may return any non-empty part of them
MaxOpsAnyChunks == 2
\* largest request id the model issues
MaxReq == 7
\* depth of the Python call stack at which the interpreter raises RecursionError
MaxDepth == 5
\* number of socket objects the model creates
MaxSock == 3
\* number of unread bytes the daemon may have written
MaxBuf == 24

(***************************************************************************)
(* Program constants.                                                      *)
(***************************************************************************)
RPC_RESPONSE == 1
RPC_ERROR == 2
RPC_EVENT == 3
MESSAGE_HEADER_SIZE == 5
READ_SIZE == 10
\* the protocol version the probe is framed under (_detect_deluge_version)
PROBE_VERSION == 1

\* Python's None, as a value and as `expected_bytes = None`
None == 0 - 1
\* history only: no clean response frame is expected
NoExpect == 0 - 2

Min(a, b) == IF a < b THEN a ELSE b

(***************************************************************************)
(* Byte strings are sequences of numbers 0..255.                           *)
(***************************************************************************)
\* values a RESPONSE may carry
Values == {7, 8}
\* b'A': the exception type name of an ERROR
ErrName == <<65>>
\* (b'b', b'c'): the exception arguments of an ERROR
ErrArgs == << <<98>>, <<99>> >>
\* b't': the traceback text of an ERROR
ErrTrace == <<116>>
\* b'e': the name of an EVENT
EventName == <<101>>

Resp(r, v) == [type |-> RPC_RESPONSE, id |-> r, val |-> v,
               etype |-> <<>>, eargs |-> <<>>, tb |-> <<>>]
Err(r) == [type |-> RPC_ERROR, id |-> r, val |-> None,
           etype |-> ErrName, eargs |-> ErrArgs, tb |-> ErrTrace]
Event == [type |-> RPC_EVENT, id |-> 0, val |-> None,
          etype |-> EventName, eargs |-> <<>>, tb |-> <<>>]
\* what loads() cannot decode
BadMsg == [type |-> 0, id |-> 0, val |-> None,
           etype |-> <<>>, eargs |-> <<>>, tb |-> <<>>]

\* the messages a daemon sends
Messages == {Resp(r, v) : r \in 0..(MaxReq + 1), v \in Values}
            \cup {Err(r) : r \in 0..(MaxReq + 1)} \cup {Event}

RECURSIVE Flatten(_)
Flatten(ss) == IF ss = <<>> THEN <<>> ELSE Head(ss) \o Flatten(Tail(ss))

\* rencode of a short byte string
EncStr(s) == <<128 + Len(s)>> \o s
\* rencode of a short list of byte strings
EncStrList(ss) == <<192 + Len(ss)>> \o Flatten([i \in DOMAIN ss |-> EncStr(ss[i])])

\* rencode.dumps of an inbound message
dumps(m) ==
    IF m.type = RPC_RESPONSE THEN <<192 + 3, m.type, m.id, m.val>>
    ELSE IF m.type = RPC_ERROR
    THEN <<192 + 6, m.type, m.id>> \o EncStr(m.etype) \o EncStrList(m.eargs)
         \o <<69>> \o EncStr(m.tb)
    ELSE <<192 + 3, m.type>> \o EncStr(m.etype) \o <<192>>

\* rencode.loads: the inverse of dumps, BadMsg where there is none
loads(b) ==
    IF \E m \in Messages : dumps(m) = b
    THEN CHOOSE m \in Messages : dumps(m) = b
    ELSE BadMsg

RECURSIVE Sum(_)
Sum(b) == IF b = <<>> THEN 0 ELSE Head(b) + Sum(Tail(b))

\* zlib.compress: a self-delimiting stream with a header byte and a checksum
compress(b) == <<120, Len(b)>> \o b \o <<Sum(b) % 256>>

\* what zlib.decompress raises zlib.error for
ZlibError == <<None>>

\* zlib.decompress: the stream's content; bytes after the stream are ignored
decompress(d) ==
    IF /\ Len(d) >= 3
       /\ d[1] = 120
       /\ Len(d) >= d[2] + 3
       /\ d[d[2] + 3] = Sum(SubSeq(d, 3, d[2] + 2)) % 256
    THEN SubSeq(d, 3, d[2] + 2)
    ELSE ZlibError

\* struct.pack('!BI', v, n)
pack_BI(v, n) == <<v, (n \div 16777216) % 256, (n \div 65536) % 256,
                   (n \div 256) % 256, n % 256>>
\* struct.unpack('!I', h)[0]
unpack_I(h) == h[1] * 16777216 + h[2] * 65536 + h[3] * 256 + h[4]

\* a frame on the wire: version byte, length, compressed payload
Frame(v, m) == pack_BI(v, Len(compress(dumps(m)))) \o compress(dumps(m))

\* a frame whose payload is not a zlib stream
CorruptFrame == pack_BI(1, 3) \o <<0, 0, 0>>

\* the frames the daemon may answer request r with: a response, an error, an
\* event, a frame of another protocol version, a corrupt frame
Answers(r) ==
    {Frame(1, Resp(r, v)) : v \in Values}
    \cup {Frame(1, Err(r)), Frame(1, Event), Frame(2, Resp(r, 7)), CorruptFrame}

\* where the network may cut a frame: inside its header, inside its payload
Cuts == {3, 8}

\* what follows a request r on the stream: `now` arrives before the client
\* reads, `later` after the client has given up waiting (or never, if the
\* session is gone by then).  An answer arrives whole, or not at all; a
\* response may also arrive late, or cut in two with the rest late or lost.
Reactions(r) ==
    {[now |-> w, later |-> <<>>] : w \in Answers(r) \cup {<<>>}}
    \cup {[now |-> <<>>, later |-> Frame(1, Resp(r, 7))]}
    \cup {[now |-> SubSeq(Frame(1, Resp(r, 7)), 1, c), later |-> <<>>] : c \in Cuts}
    \cup {[now |-> SubSeq(Frame(1, Resp(r, 7)), 1, c),
           later |-> SubSeq(Frame(1, Resp(r, 7)), c + 1, Len(Frame(1, Resp(r, 7))))]
          : c \in Cuts}

(***************************************************************************)
(* Exceptions.                                                             *)
(***************************************************************************)
Exc(t) == [type |-> t, kind |-> <<>>, msg |-> <<>>]
NoExc == Exc("none")

\* socket.error, ConnectionLostException, CallTimeoutException
TransportErrs == {"SocketError", "ConnectionLost", "CallTimeout"}

\* mutant: InvalidHeaderException is caught with the transport errors
IsTransport_AndInvalidHeader(e) == e.type \in TransportErrs \cup {"InvalidHeader"}

\* except (socket.error, ConnectionLostException, CallTimeoutException)
IsTransport(e) == e.type \in TransportErrs

(***************************************************************************)
(* The call stack.                                                         *)
(***************************************************************************)
NewFrame(fn, pc, method) ==
    [fn |-> fn, pc |-> pc, method |-> method,
     tried_reconnect |-> FALSE,
     \* history of this invocation
     nrec |-> 0,          \* entries into reconnect() while it was active
     own |-> 0,           \* reconnects its own handler started
     nsent |-> 0,         \* _send_call calls it made
     fails |-> 0,         \* transport failures its handler caught
     fatal |-> "none",    \* the other exception its try body raised
     msg |-> BadMsg,      \* the message it decoded last
     sock0 |-> socket,    \* self._socket when it started
     conn0 |-> connected] \* self.connected when it started

Top == stack[Len(stack)]
Pop(s) == SubSeq(s, 1, Len(s) - 1)
SetTop(f) == [stack EXCEPT ![Len(stack)] = f]
Running == stack # <<>> /\ exc = NoExc
InFn(fn, pc) == Running /\ Top.fn = fn /\ Top.pc = pc

\* the exchange: the id of the request sent last; the value of the RESPONSE
\* frame that is its only answer on the stream (if it is); whether a recv
\* ended inside that frame's header or inside its payload; and whether the
\* only answer on the stream is a frame of another protocol version
NoXchg == [rid |-> 0, expect |-> NoExpect, cutH |-> FALSE, cutP |-> FALSE,
           badver |-> FALSE, ver |-> None, hdr |-> None, over |-> 0,
           partial |-> FALSE]

\* the sessions: the socket objects connected and not closed; the requests
\* written to the current socket whose answer was not read; how far the
\* current socket got (new, probed, negotiated, loggedin; bad when a probe
\* was sent on a socket that had carried a frame); whether the host program
\* is inside a `with` block (out, in, exited); the number of _send_call
\* runs; the id of the probe written last (0 if none was)
NoSess == [live |-> {}, inflight |-> 0, phase |-> "new", scope |-> "out",
           nreq |-> 0, probe |-> 0]

\* the sessions after _send_call wrote a request, whole or in part
SessSent(pcOk, whole) ==
    [sess EXCEPT !.nreq = @ + 1,
                 !.inflight = IF whole THEN Min(2, @ + 1) ELSE @,
                 !.phase = IF pcOk = "recv1"
                           THEN IF @ = "new" THEN "probed" ELSE "bad"
                           ELSE @,
                 !.probe = IF pcOk = "recv1" THEN request_id' ELSE @]

\* the sessions when the host program invokes an operation other than
\* disconnect()
SessInvoke == [sess EXCEPT !.scope = IF @ = "exited" THEN "out" ELSE @]

\* how a call() invocation ended: returned v, or raised e after catching c
NoDone == [status |-> "none"]
DoneOf(f, status, v, e, c, x) ==
    [status |-> status, val |-> v, exc |-> e, caught |-> c, frame |-> f, xchg |-> x]

\* every active call() invocation sees one more entry into reconnect()
CountReconnect(s) ==
    [i \in DOMAIN s |-> IF s[i].fn = "call"
                        THEN [s[i] EXCEPT !.nrec = @ + 1] ELSE s[i]]

Init ==
    /\ automatic_reconnect \in BOOLEAN
    /\ request_id = 1
    /\ connected = FALSE
    /\ deluge_protocol_version = 0
    /\ socket = 1
    /\ nsock = 1
    /\ openSocks = {1}
    /\ sockConnected = FALSE
    /\ inbuf = <<>>
    /\ late = <<>>
    /\ chunking \in {"whole", "any"}
    /\ stack = <<>>
    /\ exc = NoExc
    /\ data = <<>>
    /\ expected_bytes = None
    /\ xchg = NoXchg
    /\ done = NoDone
    /\ sess = NoSess
    /\ nops = 0

(***************************************************************************)
(* Helpers of the actions.                                                 *)
(***************************************************************************)
\* raise e in the running method; a non-transport exception is remembered
RaiseIn(e) ==
    /\ exc' = e
    /\ stack' = SetTop([Top EXCEPT !.fatal = IF e.type \in TransportErrs
                                             THEN @ ELSE e.type])
    /\ data' = <<>>
    /\ expected_bytes' = None

\* DelugeRPCClient.disconnect: the socket, the open sockets and the flag after it
DisconnectSocket == IF connected THEN 0 ELSE socket
DisconnectOpen == IF connected THEN openSocks \ {socket} ELSE openSocks

\* the caller of connect() continues: reconnect() returns at once, and the
\* call() that started it sets tried_reconnect and loops
ReturnFromConnect(s) ==
    IF s = <<>> THEN s
    ELSE IF Pop(s) = <<>> THEN <<>>
    ELSE [Pop(s) EXCEPT ![Len(s) - 1].tried_reconnect = TRUE,
                        ![Len(s) - 1].pc = "send"]

\* the caller of call() continues: connect() has logged in
ReturnFromCall(s) ==
    IF s = <<>> THEN s ELSE [s EXCEPT ![Len(s)].pc = "loggedin"]

(***************************************************************************)
(* Operations of the public surface, invoked by the host program when no   *)
(* other operation is running.                                             *)
(***************************************************************************)
Idle == stack = <<>> /\ exc = NoExc

\* the host program invokes one more operation
Invoke ==
    /\ Idle
    /\ nops < (IF chunking = "any" THEN MaxOpsAnyChunks ELSE MaxOps)
    /\ nops' = nops + 1
    /\ done' = NoDone
    /\ xchg' = NoXchg

\* client.call(method, ...)
UserCall ==
    /\ Invoke
    /\ sess' = SessInvoke
    /\ stack' = <<NewFrame("call", "send", "core.method")>>
    /\ UNCHANGED <<automatic_reconnect, chunking, request_id, connected,
                   deluge_protocol_version, socket, nsock, openSocks,
                   sockConnected, inbuf, late, exc, data, expected_bytes>>

\* client.connect(), also __enter__
UserConnect ==
    /\ Invoke
    /\ sess' = SessInvoke
    /\ stack' = <<NewFrame("connect", "connect", "")>>
    /\ UNCHANGED <<automatic_reconnect, chunking, request_id, connected,
                   deluge_protocol_version, socket, nsock, openSocks,
                   sockConnected, inbuf, late, exc, data, expected_bytes>>

\* client.reconnect()
UserReconnect ==
    /\ Invoke
    /\ sess' = SessInvoke
    /\ stack' = <<NewFrame("reconnect", "start", "")>>
    /\ UNCHANGED <<automatic_reconnect, chunking, request_id, connected,
                   deluge_protocol_version, socket, nsock, openSocks,
                   sockConnected, inbuf, late, exc, data, expected_bytes>>

\* client.disconnect(), also __exit__
UserDisconnect ==
    /\ Invoke
    /\ socket' = DisconnectSocket
    /\ openSocks' = DisconnectOpen
    /\ connected' = FALSE
    /\ sockConnected' = (sockConnected /\ ~connected)
    /\ inbuf' = IF connected THEN <<>> ELSE inbuf
    /\ late' = IF connected THEN <<>> ELSE late
    /\ sess' = [sess EXCEPT
                  !.live = IF connected THEN @ \ {socket} ELSE @,
                  !.inflight = IF connected THEN 0 ELSE @,
                  !.phase = IF connected THEN "new" ELSE @,
                  !.scope = IF @ = "in" THEN "exited" ELSE "out"]
    /\ UNCHANGED <<automatic_reconnect, chunking, request_id, deluge_protocol_version,
                   nsock, stack, exc, data, expected_bytes>>

(***************************************************************************)
(* reconnect()                                                             *)
(***************************************************************************)
\* disconnect(); _create_socket(); then connect() is called
Reconnect ==
    /\ InFn("reconnect", "start")
    /\ nsock < MaxSock
    /\ socket' = nsock + 1
    /\ nsock' = nsock + 1
    /\ openSocks' = DisconnectOpen \cup {nsock + 1}
    /\ connected' = FALSE
    /\ sockConnected' = FALSE
    /\ inbuf' = <<>>
    /\ late' = <<>>
    /\ sess' = [sess EXCEPT
                  !.live = IF connected THEN @ \ {socket} ELSE @,
                  !.inflight = 0,
                  !.phase = "new"]
    /\ IF Len(stack) < MaxDepth
       THEN /\ stack' = Append(SetTop([Top EXCEPT !.pc = "connect"]),
                               NewFrame("connect", "connect", ""))
            /\ exc' = NoExc
       ELSE /\ stack' = stack
            /\ exc' = Exc("RecursionError")
    /\ done' = NoDone
    /\ UNCHANGED <<automatic_reconnect, chunking, request_id, deluge_protocol_version,
                   data, expected_bytes, xchg, nops>>

(***************************************************************************)
(* connect(): _connect, _detect_deluge_version, login                      *)
(***************************************************************************)
\* the outcomes of self._socket.connect(): connected, a socket error, or the
\* SSLv3 fallback, whose wrap_socket(..., ssl_version=...) raises TypeError
ConnectOutcomes == {"ok", "SocketError", "TypeError"}

\* _connect()
ConnectSocket ==
    /\ InFn("connect", "connect")
    /\ IF socket = 0
       THEN RaiseIn(Exc("AttributeError")) /\ UNCHANGED sockConnected
       ELSE IF sockConnected
       THEN RaiseIn(Exc("ValueError")) /\ UNCHANGED sockConnected
       ELSE \E o \in ConnectOutcomes :
              IF o = "ok"
              THEN /\ sockConnected' = TRUE
                   /\ stack' = SetTop([Top EXCEPT !.pc = "probe"])
                   /\ UNCHANGED <<exc, data, expected_bytes>>
              ELSE RaiseIn(Exc(o)) /\ UNCHANGED sockConnected
    /\ sess' = [sess EXCEPT !.live = IF sockConnected' THEN @ \cup {socket}
                                     ELSE @]
    /\ done' = NoDone
    /\ UNCHANGED <<automatic_reconnect, chunking, request_id, connected,
                   deluge_protocol_version, socket, nsock, openSocks, inbuf, late, xchg, nops>>

\* mutant: the request id is not advanced
NextRequestId_Same(r) == r

\* self.request_id += 1
NextRequestId(r) == r + 1

\* _send_call(protocol_version, ...): the next id, then the frame is sent and
\* the daemon reacts; on success the method continues at pcOk
SendCall(protocol_version, pcOk) ==
    /\ request_id < MaxReq
    /\ request_id' = NextRequestId(request_id)
    /\ LET f == [Top EXCEPT !.nsent = @ + 1]
           x == [NoXchg EXCEPT !.rid = NextRequestId(request_id),
                               !.ver = protocol_version]
       IN
       IF socket = 0
       THEN /\ exc' = Exc("AttributeError")
            /\ stack' = SetTop([f EXCEPT !.fatal = "AttributeError"])
            /\ xchg' = x
            /\ sess' = SessSent("", FALSE)
            /\ UNCHANGED <<inbuf, late>>
       ELSE IF protocol_version = 0
       THEN /\ exc' = Exc("StructError")
            /\ stack' = SetTop([f EXCEPT !.fatal = "StructError"])
            /\ xchg' = x
            /\ sess' = SessSent("", FALSE)
            /\ UNCHANGED <<inbuf, late>>
       ELSE \/ /\ exc' = Exc("SocketError")
               /\ stack' = SetTop(f)
               /\ xchg' = x
               /\ sess' = SessSent("", FALSE)
               /\ UNCHANGED <<inbuf, late>>
            \/ \* a send returns having written a part of the bytes; its
               \* return value is not looked at
               /\ sockConnected
               /\ inbuf' = inbuf \o late
               /\ late' = <<>>
               /\ xchg' = [x EXCEPT !.partial = TRUE]
               /\ sess' = SessSent(pcOk, FALSE)
               /\ stack' = SetTop([f EXCEPT !.pc = pcOk])
               /\ exc' = NoExc
            \/ /\ sockConnected
               /\ \E w \in Reactions(NextRequestId(request_id)) :
                    /\ Len(inbuf) + Len(late) + Len(w.now) + Len(w.later) <= MaxBuf
                    /\ inbuf' = inbuf \o late \o w.now
                    /\ late' = w.later
                    /\ xchg' = [x EXCEPT !.expect =
                                  IF /\ inbuf \o late = <<>>
                                     /\ w.later = <<>>
                                     /\ \E v \in Values :
                                          w.now = Frame(protocol_version,
                                                        Resp(NextRequestId(request_id), v))
                                  THEN CHOOSE v \in Values :
                                         w.now = Frame(protocol_version,
                                                       Resp(NextRequestId(request_id), v))
                                  ELSE NoExpect,
                                  !.badver =
                                  /\ inbuf \o late = <<>>
                                  /\ w.later = <<>>
                                  /\ w.now # <<>>
                                  /\ w.now[1] # protocol_version]
               /\ sess' = SessSent(pcOk, TRUE)
               /\ stack' = SetTop([f EXCEPT !.pc = pcOk])
               /\ exc' = NoExc
    /\ data' = <<>>
    /\ expected_bytes' = None
    /\ done' = NoDone
    /\ UNCHANGED <<automatic_reconnect, chunking, connected, deluge_protocol_version,
                   socket, nsock, openSocks, sockConnected, nops>>

\* _detect_deluge_version: self._send_call(1, 'daemon.info')
DetectSend ==
    /\ InFn("connect", "probe")
    /\ SendCall(PROBE_VERSION, "recv1")

\* mutant: any first byte is taken for protocol version 1
VersionSupported_Any(b) == b \in 0..255

\* the version byte _detect_deluge_version accepts
VersionSupported(b) == b = 1

\* _detect_deluge_version: result = self._socket.recv(1) and what follows
DetectRecv1 ==
    /\ InFn("connect", "recv1")
    /\ \/ /\ sockConnected
          /\ inbuf # <<>>
          /\ inbuf' = Tail(inbuf)
          /\ IF VersionSupported(Head(inbuf))
             THEN /\ deluge_protocol_version' = 1
                  /\ data' = <<Head(inbuf)>>
                  /\ expected_bytes' = None
                  /\ stack' = SetTop([Top EXCEPT !.pc = "recvinfo"])
                  /\ exc' = NoExc
             ELSE RaiseIn(Exc("Unsupported")) /\ UNCHANGED deluge_protocol_version
       \/ \* except TimeoutError
          /\ inbuf = <<>>
          /\ RaiseIn(Exc("Unsupported"))
          /\ UNCHANGED <<inbuf, deluge_protocol_version>>
       \/ \* recv returns b'': ord(b'') raises TypeError
          /\ inbuf = <<>>
          /\ RaiseIn(Exc("TypeError"))
          /\ UNCHANGED <<inbuf, deluge_protocol_version>>
       \/ \* another socket error
          /\ inbuf = <<>>
          /\ RaiseIn(Exc("SocketError"))
          /\ UNCHANGED <<inbuf, deluge_protocol_version>>
    /\ xchg' = [xchg EXCEPT !.cutH = xchg.expect # NoExpect]
    /\ done' = NoDone
    /\ UNCHANGED <<automatic_reconnect, chunking, request_id, connected, socket, nsock,
                   openSocks, sockConnected, late, sess, nops>>

(***************************************************************************)
(* _receive_response                                                       *)
(***************************************************************************)
\* mutant: the first header byte is not compared with protocol_version
Accumulate_NoVersionCheck(d, dat, exp, protocol_version) ==
    LET data1 == dat \o d
        first == exp = None
        header == SubSeq(data1, 1, MESSAGE_HEADER_SIZE)
        data2 == IF first
                 THEN SubSeq(data1, MESSAGE_HEADER_SIZE + 1, Len(data1))
                 ELSE data1
        exp2 == IF first THEN unpack_I(SubSeq(header, 2, 5)) ELSE exp
    IN
    IF first /\ Len(data1) < 5
    THEN [st |-> "more", data |-> data1, exp |-> None]
    ELSE IF Len(data2) >= exp2
    THEN [st |-> "payload", data |-> decompress(data2), exp |-> exp2]
    ELSE [st |-> "more", data |-> data2, exp |-> exp2]

\* mutant: `data = d` for `data += d` once the header was parsed
Accumulate_Overwrite(d, dat, exp, protocol_version) ==
    LET data1 == IF exp = None THEN dat \o d ELSE d
        first == exp = None
        header == SubSeq(data1, 1, MESSAGE_HEADER_SIZE)
        data2 == IF first
                 THEN SubSeq(data1, MESSAGE_HEADER_SIZE + 1, Len(data1))
                 ELSE data1
        exp2 == IF first THEN unpack_I(SubSeq(header, 2, 5)) ELSE exp
    IN
    IF first /\ Len(data1) < 5
    THEN [st |-> "more", data |-> data1, exp |-> None]
    ELSE IF first /\ header[1] # protocol_version
    THEN [st |-> "InvalidHeader", data |-> <<>>, exp |-> None]
    ELSE IF Len(data2) >= exp2
    THEN [st |-> "payload", data |-> decompress(data2), exp |-> exp2]
    ELSE [st |-> "more", data |-> data2, exp |-> exp2]

\* lines 175-192: one pass of the loop after d was received; "more" continues
\* the loop, "payload" leaves it with the decompressed bytes
Accumulate(d, dat, exp, protocol_version) ==
    LET data1 == dat \o d
        first == exp = None
        header == SubSeq(data1, 1, MESSAGE_HEADER_SIZE)
        data2 == IF first
                 THEN SubSeq(data1, MESSAGE_HEADER_SIZE + 1, Len(data1))
                 ELSE data1
        exp2 == IF first THEN unpack_I(SubSeq(header, 2, 5)) ELSE exp
    IN
    IF first /\ Len(data1) < 5
    THEN [st |-> "more", data |-> data1, exp |-> None]
    ELSE IF first /\ header[1] # protocol_version
    THEN [st |-> "InvalidHeader", data |-> <<>>, exp |-> None]
    ELSE IF Len(data2) >= exp2
    THEN [st |-> "payload", data |-> decompress(data2), exp |-> exp2]
    ELSE [st |-> "more", data |-> data2, exp |-> exp2]

\* b', '.join(exception_msg)
RECURSIVE Join(_)
Join(ss) ==
    IF ss = <<>> THEN <<>>
    ELSE IF Len(ss) = 1 THEN ss[1]
    ELSE ss[1] \o <<44, 32>> \o Join(Tail(ss))

\* mutant: the message is the first argument alone, without the traceback
RemoteException_FirstArg(m) ==
    [type |-> "Remote", kind |-> m.etype, msg |-> m.eargs[1]]

\* lines 206-214: the exception raised for an ERROR message
RemoteException(m) ==
    [type |-> "Remote", kind |-> m.etype, msg |-> Join(m.eargs) \o <<10>> \o m.tb]

\* lines 194-217: what the decompressed payload makes _receive_response do
Decode(payload) ==
    IF payload = ZlibError THEN [st |-> "raise", exc |-> Exc("ZlibError"),
                                 val |-> None, msg |-> BadMsg]
    ELSE LET m == loads(payload) IN
         IF m = BadMsg THEN [st |-> "raise", exc |-> Exc("DecodeError"),
                             val |-> None, msg |-> m]
         ELSE IF m.type = RPC_ERROR
         THEN [st |-> "raise", exc |-> RemoteException(m), val |-> None, msg |-> m]
         ELSE IF m.type = RPC_RESPONSE
         THEN [st |-> "return", exc |-> NoExc, val |-> m.val, msg |-> m]
         ELSE [st |-> "return", exc |-> NoExc, val |-> None, msg |-> m]

\* the exceptions a failing recv makes _receive_response raise: zero bytes
\* (ConnectionLostException), ssl.SSLError (CallTimeoutException), and any
\* other socket error, a socket.timeout among them
RecvFailures == {"ConnectionLost", "CallTimeout", "SocketError"}

\* the numbers of bytes a recv(n) may return when some have arrived
RecvSizes(n) ==
    IF chunking = "any" THEN 1..Min(n, Len(inbuf))
    ELSE {k \in 1..n : k = Min(n, Len(inbuf))}

\* one pass of the loop of _receive_response(protocol_version), in call()
\* or in _detect_deluge_version
Receive(protocol_version) ==
    \/ \E t \in RecvFailures :
         /\ inbuf = <<>>
         /\ RaiseIn(Exc(t))
         /\ done' = NoDone
         /\ UNCHANGED <<inbuf, late, xchg, sess>>
    \/ /\ sockConnected
       /\ \E k \in RecvSizes(READ_SIZE) :
            LET r == Accumulate(SubSeq(inbuf, 1, k), data, expected_bytes,
                                protocol_version)
                \* the bytes received for the frame so far, header included
                got == data \o SubSeq(inbuf, 1, k)
                x == [xchg EXCEPT
                        !.cutH = @ \/ (xchg.expect # NoExpect /\ r.st = "more"
                                       /\ r.exp = None),
                        !.cutP = @ \/ (xchg.expect # NoExpect /\ r.st = "more"
                                       /\ r.exp # None /\ r.data # <<>>),
                        !.hdr = IF expected_bytes = None /\ r.exp # None
                                THEN got[1] ELSE @,
                        !.over = IF r.st = "payload"
                                 THEN Len(got) - r.exp
                                      - (IF expected_bytes = None
                                         THEN MESSAGE_HEADER_SIZE ELSE 0)
                                 ELSE @]
                o == Decode(r.data)
                answered == r.st = "payload"
                returns == answered /\ o.st # "raise"
            IN
            /\ inbuf' = SubSeq(inbuf, k + 1, Len(inbuf))
            /\ xchg' = x
            /\ sess' = [sess EXCEPT
                          !.inflight = IF answered /\ @ > 0 THEN @ - 1 ELSE @,
                          !.phase = IF returns /\ Top.fn = "connect"
                                    THEN "negotiated"
                                    ELSE IF /\ returns
                                            /\ Top.method = "daemon.login"
                                            /\ Len(stack) > 1
                                    THEN "loggedin"
                                    ELSE @]
            /\ IF r.st = "more"
               THEN /\ data' = r.data
                    /\ expected_bytes' = r.exp
                    /\ done' = NoDone
                    /\ UNCHANGED <<exc, stack>>
               ELSE /\ data' = <<>>
                    /\ expected_bytes' = None
                    /\ IF r.st = "InvalidHeader"
                       THEN /\ exc' = Exc("InvalidHeader")
                            /\ stack' = SetTop([Top EXCEPT !.fatal = "InvalidHeader"])
                            /\ done' = NoDone
                       ELSE IF o.st = "raise"
                       THEN /\ exc' = o.exc
                            /\ stack' = SetTop([Top EXCEPT !.fatal = o.exc.type,
                                                           !.msg = o.msg])
                            /\ done' = NoDone
                       ELSE IF Top.fn = "call"
                       THEN \* call() returns the value to its caller
                            /\ done' = DoneOf([Top EXCEPT !.msg = o.msg],
                                              "returned", o.val, NoExc, NoExc, x)
                            /\ stack' = ReturnFromCall(Pop(stack))
                            /\ UNCHANGED exc
                       ELSE /\ stack' = SetTop([Top EXCEPT !.pc = "login"])
                            /\ done' = NoDone
                            /\ UNCHANGED exc

\* call(): return self._receive_response(self.deluge_protocol_version)
CallRecv ==
    /\ InFn("call", "recv")
    /\ Receive(deluge_protocol_version)
    /\ UNCHANGED <<automatic_reconnect, chunking, request_id, connected,
                   deluge_protocol_version, socket, nsock, openSocks,
                   sockConnected, late, nops>>

\* _detect_deluge_version: self._receive_response(1, partial_data=result)
DetectRecv ==
    /\ InFn("connect", "recvinfo")
    /\ Receive(PROBE_VERSION)
    /\ UNCHANGED <<automatic_reconnect, chunking, request_id, connected,
                   deluge_protocol_version, socket, nsock, openSocks,
                   sockConnected, late, nops>>

\* connect(): result = self.call('daemon.login', ...)
ConnectLogin ==
    /\ InFn("connect", "login")
    /\ IF Len(stack) < MaxDepth
       THEN /\ stack' = Append(SetTop([Top EXCEPT !.pc = "call"]),
                               NewFrame("call", "send", "daemon.login"))
            /\ UNCHANGED exc
       ELSE /\ exc' = Exc("RecursionError")
            /\ UNCHANGED stack
    /\ done' = NoDone
    /\ UNCHANGED <<automatic_reconnect, chunking, request_id, connected,
                   deluge_protocol_version, socket, nsock, openSocks,
                   sockConnected, inbuf, late, data, expected_bytes, xchg, sess,
                   nops>>

\* connect(): self.connected = True, and connect() returns
ConnectDone ==
    /\ InFn("connect", "loggedin")
    /\ connected' = TRUE
    /\ stack' = ReturnFromConnect(Pop(stack))
    /\ done' = NoDone
    /\ sess' = [sess EXCEPT !.scope = IF Len(stack) = 1 THEN "in" ELSE @]
    /\ UNCHANGED <<automatic_reconnect, chunking, request_id, deluge_protocol_version,
                   socket, nsock, openSocks, sockConnected, inbuf, late, exc, data,
                   expected_bytes, xchg, nops>>

(***************************************************************************)
(* call()                                                                  *)
(***************************************************************************)
\* call(): self._send_call(self.deluge_protocol_version, method, ...)
CallSend ==
    /\ InFn("call", "send")
    /\ SendCall(deluge_protocol_version, "recv")

\* mutant: the second transport failure is raised as it is
CallExcept_Reraise(f, e) ==
    IF f.pc = "reconnect"
    THEN IF IsTransport(e) THEN [act |-> "raise", exc |-> Exc("FailedToReconnect")]
         ELSE [act |-> "raise", exc |-> e]
    ELSE IF IsTransport(e)
    THEN IF automatic_reconnect
         THEN IF f.tried_reconnect
              THEN [act |-> "raise", exc |-> e]
              ELSE [act |-> "reconnect", exc |-> NoExc]
         ELSE [act |-> "raise", exc |-> e]
    ELSE [act |-> "raise", exc |-> e]

\* mutant: automatic_reconnect is not consulted
CallExcept_AlwaysReconnect(f, e) ==
    IF f.pc = "reconnect"
    THEN IF IsTransport(e) THEN [act |-> "raise", exc |-> Exc("FailedToReconnect")]
         ELSE [act |-> "raise", exc |-> e]
    ELSE IF IsTransport(e)
    THEN IF f.tried_reconnect
         THEN [act |-> "raise", exc |-> Exc("FailedToReconnect")]
         ELSE [act |-> "reconnect", exc |-> NoExc]
    ELSE [act |-> "raise", exc |-> e]

\* lines 236-248: what call() does with exception e raised in frame f, in the
\* try body (pc send, recv) or by its own reconnect() (pc reconnect)
CallExcept(f, e) ==
    IF f.pc = "reconnect"
    THEN IF IsTransport(e) THEN [act |-> "raise", exc |-> Exc("FailedToReconnect")]
         ELSE [act |-> "raise", exc |-> e]
    ELSE IF IsTransport(e)
    THEN IF automatic_reconnect
         THEN IF f.tried_reconnect
              THEN [act |-> "raise", exc |-> Exc("FailedToReconnect")]
              ELSE [act |-> "reconnect", exc |-> NoExc]
         ELSE [act |-> "raise", exc |-> e]
    ELSE [act |-> "raise", exc |-> e]

\* an exception reaches call(): it starts reconnect() or raises to the caller
CallHandle ==
    /\ stack # <<>>
    /\ exc # NoExc
    /\ Top.fn = "call"
    /\ LET h == CallExcept(Top, exc)
           f == IF exc.type \in TransportErrs /\ Top.pc # "reconnect"
                THEN [Top EXCEPT !.fails = @ + 1]
                ELSE Top
       IN
       IF h.act = "reconnect"
       THEN IF Len(stack) < MaxDepth
            THEN /\ stack' = Append(
                       CountReconnect(SetTop([f EXCEPT !.pc = "reconnect",
                                                       !.own = @ + 1])),
                       NewFrame("reconnect", "start", ""))
                 /\ exc' = NoExc
                 /\ done' = NoDone
                 /\ xchg' = NoXchg
            ELSE /\ exc' = Exc("RecursionError")
                 /\ stack' = Pop(stack)
                 /\ done' = DoneOf(f, "raised", None, Exc("RecursionError"),
                                   exc, xchg)
                 /\ xchg' = NoXchg
       ELSE /\ exc' = h.exc
            /\ stack' = Pop(stack)
            /\ done' = DoneOf(f, "raised", None, h.exc, exc, xchg)
            /\ xchg' = NoXchg
    /\ UNCHANGED <<automatic_reconnect, chunking, request_id, connected,
                   deluge_protocol_version, socket, nsock, openSocks,
                   sockConnected, inbuf, late, data, expected_bytes, sess, nops>>

\* connect() and reconnect() catch nothing: the exception leaves them
Propagate ==
    /\ stack # <<>>
    /\ exc # NoExc
    /\ Top.fn # "call"
    /\ stack' = Pop(stack)
    /\ done' = NoDone
    /\ xchg' = NoXchg
    /\ UNCHANGED <<automatic_reconnect, chunking, request_id, connected,
                   deluge_protocol_version, socket, nsock, openSocks,
                   sockConnected, inbuf, late, exc, data, expected_bytes, sess,
                   nops>>

\* the exception reaches the host program
Finish ==
    /\ stack = <<>>
    /\ exc # NoExc
    /\ exc' = NoExc
    /\ done' = NoDone
    /\ UNCHANGED <<automatic_reconnect, chunking, request_id, connected,
                   deluge_protocol_version, socket, nsock, openSocks,
                   sockConnected, inbuf, late, stack, data, expected_bytes, xchg,
                   sess, nops>>

Next ==
    \/ UserCall
    \/ UserConnect
    \/ UserReconnect
    \/ UserDisconnect
    \/ Reconnect
    \/ ConnectSocket
    \/ DetectSend
    \/ DetectRecv1
    \/ DetectRecv
    \/ ConnectLogin
    \/ ConnectDone
    \/ CallSend
    \/ CallRecv
    \/ CallHandle
    \/ Propagate
    \/ Finish

Spec == Init /\ [][Next]_vars

(***************************************************************************)
(* The claims.                                                             *)
(***************************************************************************)
Ended == done.status # "none"
Raised == done.status = "raised"
Returned == done.status = "returned"

\* decompression and deserialization failures, and the header mismatch
ProtocolErrs == {"InvalidHeader", "ZlibError", "DecodeError"}

\* C1: a call() invocation with automatic_reconnect whose first attempt fails
\* at transport level sees exactly one entry into reconnect(), the entries
\* made during its reconnect's own probe and login included.
C1_ExactlyOneReconnect ==
    /\ \A i \in DOMAIN stack : stack[i].fn = "call" => stack[i].nrec <= 1
    /\ (Ended /\ automatic_reconnect /\ done.frame.fails >= 1
        /\ done.exc.type # "RecursionError") => done.frame.nrec = 1

\* C2: with automatic_reconnect, call() raises no transport error to its
\* caller; when the retried call fails at transport level too, it raises
\* FailedToReconnectException and has started one reconnect, not two.
C2_NoTransportErrorEscapes ==
    /\ \A i \in DOMAIN stack : stack[i].fn = "call" => stack[i].own <= 1
    /\ (Raised /\ automatic_reconnect) => done.exc.type \notin TransportErrs
    /\ (Ended /\ automatic_reconnect /\ done.frame.fails = 2) =>
          /\ Raised
          /\ done.exc.type = "FailedToReconnect"
          /\ done.frame.own = 1

\* C2 witness: the first attempt and the retried call both failed at
\* transport level and call() raised FailedToReconnectException.
C2_Witness ==
    /\ Raised /\ automatic_reconnect
    /\ done.frame.fails = 2
    /\ done.frame.nsent = 2
    /\ done.exc.type = "FailedToReconnect"

\* C3: when the reconnect a call() started fails, for whatever reason, call()
\* raises FailedToReconnectException and nothing else.
C3_ReconnectFailureIsFailedToReconnect ==
    (Raised /\ done.frame.pc = "reconnect") => done.exc.type = "FailedToReconnect"

\* C4: with automatic_reconnect disabled a transport failure in call() is
\* raised unchanged; reconnect() is not entered, the request was sent once,
\* and self._socket and self.connected are what they were.
C4_NoReconnectWhenDisabled ==
    /\ ~automatic_reconnect =>
          \A i \in DOMAIN stack :
             stack[i].fn = "call" =>
                stack[i].nrec = 0 /\ stack[i].own = 0 /\ stack[i].nsent <= 1
    /\ (Ended /\ ~automatic_reconnect /\ done.caught.type \in TransportErrs) =>
          /\ Raised
          /\ done.exc = done.caught
          /\ done.frame.nrec = 0
          /\ done.frame.nsent = 1
          /\ socket = done.frame.sock0
          /\ connected = done.frame.conn0

\* C4 witness: a user call on a logged-in session lost the connection while
\* waiting for the response, with automatic_reconnect disabled.
C4_Witness ==
    /\ Raised /\ ~automatic_reconnect
    /\ done.frame.method = "core.method"
    /\ done.frame.conn0
    /\ done.caught.type = "ConnectionLost"

\* C5: every call() invocation finishes after a bounded number of sessions
\* and requests: the nesting call -> reconnect -> connect -> call does not
\* grow until the interpreter's call stack is exhausted.
C5_CallFinishesBounded ==
    Raised => done.exc.type # "RecursionError"

\* C6: a protocol-level failure (header mismatch, decompression or
\* deserialization error) leaves call() at once under either setting: no
\* reconnect, no second send, and of a frame with a bad header nothing is
\* decoded.
C6_ProtocolErrorsNotRetried ==
    /\ \A i \in DOMAIN stack :
          stack[i].fatal \in ProtocolErrs =>
             i = Len(stack) /\ exc.type = stack[i].fatal
    /\ (Ended /\ done.frame.fatal \in ProtocolErrs) =>
          /\ Raised
          /\ done.exc.type = done.frame.fatal
          /\ done.frame.nsent = done.frame.fails + 1
          /\ done.frame.own = done.frame.fails
    /\ (Ended /\ done.xchg.badver) =>
          /\ Raised
          /\ done.exc.type = "InvalidHeader"
          /\ done.frame.msg = BadMsg

\* C6 witness: with automatic_reconnect enabled, the answer to a user call
\* was a frame of another version and call() raised InvalidHeaderException.
C6_Witness ==
    /\ Raised /\ automatic_reconnect
    /\ done.frame.method = "core.method"
    /\ done.xchg.badver
    /\ done.exc.type = "InvalidHeader"

\* C7: an ERROR message makes call() raise a RemoteException named after the
\* remote exception type, whose message is the remote arguments joined by
\* ', ', a newline and the remote traceback; it is not retried: no send and
\* no reconnect follows it.
C7_RemoteErrorSurfaced ==
    /\ \A i \in DOMAIN stack :
          stack[i].fatal = "Remote" => i = Len(stack) /\ exc.type = "Remote"
    /\ (Ended /\ done.frame.fatal = "Remote") =>
          /\ Raised
          /\ done.frame.msg.type = RPC_ERROR
          /\ done.exc.type = "Remote"
          /\ done.exc.kind = done.frame.msg.etype
          /\ done.exc.msg = done.frame.msg.eargs[1] \o <<44, 32>>
                            \o done.frame.msg.eargs[2] \o <<10>>
                            \o done.frame.msg.tb
          /\ done.frame.nsent = done.frame.fails + 1
          /\ done.frame.own = done.frame.fails
          /\ done.frame.fails = 0 => done.frame.nrec = 0

\* C7 witness: the daemon answered a user call's only request with an ERROR.
C7_Witness ==
    /\ Raised
    /\ done.frame.method = "core.method"
    /\ done.frame.nsent = 1
    /\ done.frame.nrec = 0
    /\ done.exc.type = "Remote"
    /\ done.exc.kind = <<65>>
    /\ done.exc.msg = <<98, 44, 32, 99, 10, 116>>

\* C8: when the answer to a call is one well-formed RESPONSE frame carrying
\* value v, call() returns v however the frame is split across recvs, and
\* never waits for more once the whole frame was received.
C8_ResponseValueAnyChunking ==
    /\ (Ended /\ done.xchg.expect # NoExpect) =>
          Returned /\ done.val = done.xchg.expect
    /\ (InFn("call", "recv") /\ xchg.expect # NoExpect) => inbuf # <<>>

\* C8 witness: a user call returned the value of a frame that the network
\* had cut inside the header and inside the payload.
C8_Witness ==
    /\ Returned
    /\ chunking = "any"
    /\ done.frame.method = "core.method"
    /\ done.val = 8
    /\ done.xchg.expect = 8
    /\ done.xchg.cutH
    /\ done.xchg.cutP

\* C9: a RESPONSE or ERROR frame that call() takes for its outcome carries
\* the id of the request that call() just sent.
C9_ResponseIdMatchesRequest ==
    (Ended /\ done.frame.msg.type \in {RPC_RESPONSE, RPC_ERROR}) =>
       done.frame.msg.id = done.xchg.rid

\* C10: version negotiation.  After a first byte 1 the version is 1 and that
\* byte is the first header byte of the probe's response, which is then read
\* to its end; after any other byte, or a timeout, connect() fails with the
\* unsupported-daemon error before any login is sent, and a call() whose
\* reconnect it fails passes it on unchanged.
C10_VersionNegotiation ==
    /\ InFn("connect", "recvinfo") =>
          /\ deluge_protocol_version = 1
          /\ expected_bytes = None => (data # <<>> /\ data[1] = 1)
          /\ xchg.expect # NoExpect => inbuf # <<>>
    /\ (InFn("connect", "login") /\ xchg.expect # NoExpect) => inbuf = <<>>
    /\ \A i \in DOMAIN stack :
          stack[i].fatal = "Unsupported" =>
             /\ i = Len(stack)
             /\ stack[i].fn = "connect"
             /\ stack[i].pc = "recv1"
             /\ stack[i].nsent = 1
             /\ exc.type = "Unsupported"
    /\ (Ended /\ done.caught.type = "Unsupported") =>
          /\ Raised
          /\ done.exc.type = "Unsupported"
          /\ done.frame.pc = "reconnect"
          /\ done.frame.own = 1

\* C10 witness: the probe of a reconnect started by a user call got no
\* supported version byte, and the call passed the error on.
C10_Witness ==
    /\ Raised
    /\ done.frame.method = "core.method"
    /\ done.caught.type = "Unsupported"
    /\ done.exc.type = "Unsupported"

\* C11: the k-th run of _send_call, over all operations, carries id k + 1:
\* each request's id is one more than the id before it, whatever happened in
\* between (failure, retry, reconnect), and a request written by call() has
\* an id greater than the id of the probe written last.
C11_RequestIdsConsecutive ==
    /\ request_id = sess.nreq + 1
    /\ xchg.rid # 0 => xchg.rid = sess.nreq + 1
    /\ InFn("call", "recv") => (sess.probe >= 2 /\ xchg.rid > sess.probe)

\* C11 witness: a user call failed, the client reconnected (probe 5, login
\* 6) and the retried call was written with id 7.
C11_Witness ==
    /\ InFn("call", "recv")
    /\ Top.method = "core.method"
    /\ Top.tried_reconnect
    /\ Top.nsent = 2
    /\ sess.probe = 5
    /\ xchg.rid = 7

\* C12: single-flight: no request is written to a socket while an earlier
\* request written to that socket is still unanswered.
C12_SingleFlight ==
    sess.inflight <= 1

\* C13: at most one socket of the client is connected and not closed.
C13_OneLiveSession ==
    Cardinality(sess.live) <= 1

\* C14: connected is True only while the current socket has negotiated the
\* version and logged in, and it is False after a user call raised
\* FailedToReconnectException, InvalidHeaderException or the
\* unsupported-daemon error.
C14_ConnectionStateMachine ==
    /\ connected => sess.phase = "loggedin"
    /\ (Raised /\ done.frame.method = "core.method"
        /\ done.exc.type \in {"FailedToReconnect", "InvalidHeader", "Unsupported"})
          => ~connected

\* C15: after __exit__ ran for a `with` block that __enter__ had entered, the
\* client is not connected and no socket of it is connected and open.
C15_ScopeExitDisconnects ==
    sess.scope = "exited" => (~connected /\ sess.live = {})

\* C16: the client does not wait for a response after a send that wrote
\* only a part of the request frame.
C16_SendAllOrFail ==
    (InFn("call", "recv") \/ InFn("connect", "recv1")) => ~xchg.partial

\* C17: once set, deluge_protocol_version keeps its value, and every frame
\* sent and every response header accepted after that carries it as first
\* byte.
C17_VersionFixed ==
    [][/\ deluge_protocol_version # 0 =>
             deluge_protocol_version' = deluge_protocol_version
       /\ (deluge_protocol_version' # 0 /\ xchg'.ver # None) =>
             xchg'.ver = deluge_protocol_version'
       /\ (deluge_protocol_version' # 0 /\ xchg'.hdr # None) =>
             xchg'.hdr = deluge_protocol_version']_vars

\* C17 witness: after a failure and a reconnect the retried user call was
\* sent with version byte 1 and returned from a frame with header byte 1.
C17_Witness ==
    /\ Returned
    /\ done.frame.method = "core.method"
    /\ done.frame.tried_reconnect
    /\ deluge_protocol_version = 1
    /\ done.xchg.ver = 1
    /\ done.xchg.hdr = 1

\* C18: the bytes handed to decompression for a frame are the `length`
\* bytes after its header and no byte of what follows it on the stream.
C18_ExactFrameBytes ==
    xchg.over = 0

\* C19: on every socket the probe is the first frame written, the login is
\* written after the probe's response was received, and a user call is
\* written after the login on that socket returned.
C19_SessionOrdering ==
    /\ sess.phase # "bad"
    /\ InFn("connect", "recv1") => sess.phase = "probed"
    /\ (InFn("call", "recv") /\ Top.method = "daemon.login") =>
          sess.phase = "negotiated"
    /\ (InFn("call", "recv") /\ Top.method = "core.method") =>
          sess.phase = "loggedin"

\* C20: a call() that returns, returns the value of a RESPONSE message; no
\* other message type ends it.
C20_ReturnsOnlyResponses ==
    Returned => (done.frame.msg.type = RPC_RESPONSE
                 /\ done.val = done.frame.msg.val)
====
